---- MODULE Spec2Model ----
(***************************************************************************)
(* Model of the file processing pipeline of bold-sheetsplitter-digital:    *)
(* FileProcessingService (src/src/services/api/fileProcessingService.js)   *)
(* as driven by FileProcessor (src/src/components/organisms/               *)
(* FileProcessor.jsx).                                                     *)
(*                                                                         *)
(* Strings are sequences of one-character strings, indexed from 1; the     *)
(* JavaScript string functions keep their 0-based arguments.               *)
(***************************************************************************)
EXTENDS Integers, Sequences, FiniteSets, TLC

VARIABLES
  workbookAnalyses,  \* the analyses handed to combineAllSheets
  pc,                \* position of the combineAllSheets / handleCombineFiles run
  analysisIndex,     \* outer loop variable (0-based)
  sheetIndex,        \* inner loop variable (0-based)
  SheetNames,        \* combinedWorkbook.SheetNames
  Sheets,            \* combinedWorkbook.Sheets: name -> sheet object
  totalSheets,       \* progress denominator
  processedSheets,   \* progress numerator
  progressLog,       \* the values onProgress has been invoked with, in order
  download,          \* what generateCombinedExcel returned (or NoDownload)
  run,               \* number of the combineAllSheets invocation on these analyses
  lastSheetNames,    \* SheetNames returned by the previous invocation
  vFile,             \* the file handed to validateFile
  vResult,           \* outcome of validateFile
  vm,                \* one validateMultipleFiles call: files, loop index, errors, result
  am,                \* one analyzeMultipleWorkbooks call: files, loop index, results, outcome
  clock,             \* Date.now()
  ui,                \* the React state of FileProcessor
  handlers,          \* the invocations of the asynchronous handlers of FileProcessor
  started,           \* how many handler invocations the user has started
  calls,             \* two combineAllSheets invocations on the shared service instance
  rd,                \* one worksheet being rendered by processWorksheets
  zip                \* one processWorksheets call: the worksheets selected, the archive

combineVars == <<workbookAnalyses, pc, analysisIndex, sheetIndex, SheetNames, Sheets,
                 totalSheets, processedSheets, progressLog, download, run, lastSheetNames>>
validateVars == <<vFile, vResult>>
batchVars == <<vm, am, clock>>
uiVars == <<ui, handlers, started>>
\* what neither the service calls modelled one at a time nor the clock touch
componentVars == <<uiVars, calls, rd, zip>>
\* what a combineAllSheets run leaves alone
nonCombineVars == <<validateVars, batchVars, componentVars>>
\* what a validateFile call leaves alone
nonValidateVars == <<combineVars, batchVars, componentVars>>
\* what FileProcessor leaves alone, the clock apart
nonUiVars == <<combineVars, validateVars, vm, am, calls, rd, zip>>
vars == <<combineVars, validateVars, batchVars, componentVars>>

----------------------------------------------------------------------------
(* Bounds of the model *)

MaxAnalyses == 2   \* analyses in one combineAllSheets call
MaxRuns == 2       \* combineAllSheets invocations on the same analyses
MaxBatch == 3      \* files in one validateMultipleFiles / analyzeMultipleWorkbooks call
MaxClock == 2      \* the clock values told apart
MaxFiles == 2      \* files FileProcessor holds at a time
MaxStarts == 3     \* handler invocations the user starts
MaxRows == 88      \* rows of a worksheet rendered
MaxSelected == 3   \* worksheets selected in one processWorksheets call

----------------------------------------------------------------------------
(* Strings *)

Rep(c, n) == [i \in 1..n |-> c]

Min(a, b) == IF a < b THEN a ELSE b
Max(a, b) == IF a > b THEN a ELSE b

\* String.prototype.lastIndexOf(c): 0-based index of the last c, -1 if none
LastIndexOf(s, c) ==
  IF \E i \in 1..Len(s) : s[i] = c
  THEN (CHOOSE i \in 1..Len(s) : s[i] = c /\ \A j \in (i+1)..Len(s) : s[j] # c) - 1
  ELSE -1

\* String.prototype.substring(a, b): negative arguments count as 0, arguments
\* beyond the length as the length, and the two are swapped when a > b
Substring(s, a, b) ==
  LET ca == Min(Max(a, 0), Len(s))
      cb == Min(Max(b, 0), Len(s))
  IN SubSeq(s, Min(ca, cb) + 1, Max(ca, cb))

\* String.prototype.slice(start): a negative start counts from the end
Slice(s, start) ==
  LET from == IF start < 0 THEN Max(Len(s) + start, 0) ELSE Min(start, Len(s))
  IN SubSeq(s, from + 1, Len(s))

LowerOf(c) == CASE c = "A" -> "a" [] c = "X" -> "x" [] c = "L" -> "l" [] c = "S" -> "s"
                [] OTHER -> c
\* String.prototype.toLowerCase()
ToLowerCase(s) == [i \in 1..Len(s) |-> LowerOf(s[i])]

Digit(d) == CASE d = 0 -> "0" [] d = 1 -> "1" [] d = 2 -> "2" [] d = 3 -> "3"
              [] d = 4 -> "4" [] d = 5 -> "5" [] d = 6 -> "6" [] d = 7 -> "7"
              [] d = 8 -> "8" [] d = 9 -> "9"
\* the decimal string a template literal makes of a non-negative integer
RECURSIVE NumberToString(_)
NumberToString(n) ==
  IF n < 10 THEN <<Digit(n)>> ELSE NumberToString(n \div 10) \o <<Digit(n % 10)>>

----------------------------------------------------------------------------
(* Inputs of combineAllSheets *)

Xlsx == <<".", "x", "l", "s", "x">>
Xls == <<".", "x", "l", "s">>

ShortFile == <<"a", ".", "b">> \o Xlsx     \* base name "a.b"
Long29File == Rep("f", 29) \o Xlsx          \* base name of 29 characters
Long33File == Rep("f", 33) \o Xls           \* base name longer than a sheet name may be
FileNamePool == {ShortFile, Long29File, Long33File}

SheetS == <<"S">>
SheetS1 == <<"S", "_", "1">>
Sheet31 == Rep("w", 31)                     \* the longest sheet name Excel allows

\* a workbook of ten worksheets with one-character names
TenSheets == <<SheetS, <<"1">>, <<"2">>, <<"3">>, <<"4">>, <<"5">>, <<"6">>, <<"7">>,
               <<"8">>, <<"9">>>>

\* the worksheet names of a workbook, in workbook order; they are unique within
\* one workbook and have 1 to 31 characters
SheetLists == { <<SheetS1>>, <<SheetS, SheetS1>>, <<SheetS1, SheetS, Sheet31>>,
                <<Sheet31>>, TenSheets }

\* <<file name, worksheet names>>
WorkbookPool == FileNamePool \X SheetLists

\* The analysis analyzeWorkbook resolves with for the id-th uploaded file: every
\* worksheet of workbook.SheetNames has its sheet object in workbook.Sheets.
\* A sheet object is identified by the workbook it was parsed into and its name.
SheetObject(id, name) == [wb |-> id, sheet |-> name]
Analysis(id, fileName, names) ==
  [file |-> [name |-> fileName],
   worksheets |-> [i \in 1..Len(names) |-> [name |-> names[i], index |-> i - 1]],
   workbook |-> [SheetNames |-> names,
                 Sheets |-> [n \in {names[i] : i \in 1..Len(names)} |-> SheetObject(id, n)]]]

AnalysesInputs ==
  {[i \in 1..Len(w) |-> Analysis(i, w[i][1], w[i][2])] :
     w \in UNION {[1..n -> WorkbookPool] : n \in 1..MaxAnalyses}}

----------------------------------------------------------------------------
(* combineAllSheets *)

ExcelLimit == 31

\* StripExtension cutting at the first dot instead of the last
StripExtensionFirstDot(name) ==
  IF \E i \in 1..Len(name) : name[i] = "."
  THEN SubSeq(name, 1, (CHOOSE i \in 1..Len(name) :
                          name[i] = "." /\ \A j \in 1..(i - 1) : name[j] # ".") - 1)
  ELSE name

\* name.replace(/\.[^/.]+$/, ''): the match starts at the last dot, when at least
\* one character follows it and none of them is a slash
StripExtension(name) ==
  LET dot == LastIndexOf(name, ".")
  IN IF dot >= 0 /\ dot + 1 < Len(name)
        /\ \A j \in (dot + 2)..Len(name) : name[j] # "/"
     THEN Substring(name, 0, dot)
     ELSE name

\* lines 142-149: the candidate name, its file-name part cut to fit 31 characters
NewSheetName(fileBaseName, worksheetName) ==
  LET newSheetName == fileBaseName \o <<"_">> \o worksheetName
  IN IF Len(newSheetName) > ExcelLimit
     THEN LET maxFileNameLength == ExcelLimit - Len(worksheetName) - 1
              truncatedFileName == Substring(fileBaseName, 0, maxFileNameLength)
          IN truncatedFileName \o <<"_">> \o worksheetName
     ELSE newSheetName

\* Candidate numbering the names with the last digit of the counter only
CandidateLastDigit(newSheetName, counter) ==
  LET suffix == <<"_">> \o NumberToString(counter % 10)
      maxBaseLength == ExcelLimit - Len(suffix)
  IN Substring(newSheetName, 0, maxBaseLength) \o suffix

\* lines 155-157: the name tried for a counter value
Candidate(newSheetName, counter) ==
  LET suffix == <<"_">> \o NumberToString(counter)
      maxBaseLength == ExcelLimit - Len(suffix)
  IN Substring(newSheetName, 0, maxBaseLength) \o suffix

RECURSIVE UniqueLoop(_, _, _, _)

\* UniqueLoop with an if in place of the while: the suffixed name is not rechecked
UniqueLoopOnce(newSheetName, finalSheetName, counter, sheets) ==
  IF finalSheetName \in DOMAIN sheets
  THEN LET suffix == <<"_">> \o NumberToString(counter)
           maxBaseLength == ExcelLimit - Len(suffix)
       IN Substring(newSheetName, 0, maxBaseLength) \o suffix
  ELSE finalSheetName

\* UniqueLoop leaving no room for the suffix
RECURSIVE UniqueLoopNoRoom(_, _, _, _)
UniqueLoopNoRoom(newSheetName, finalSheetName, counter, sheets) ==
  IF finalSheetName \in DOMAIN sheets
  THEN LET suffix == <<"_">> \o NumberToString(counter)
       IN UniqueLoopNoRoom(newSheetName, Substring(newSheetName, 0, ExcelLimit) \o suffix,
                           counter + 1, sheets)
  ELSE finalSheetName

\* lines 152-159: the while loop, from the state (finalSheetName, counter)
UniqueLoop(newSheetName, finalSheetName, counter, sheets) ==
  IF finalSheetName \in DOMAIN sheets
  THEN UniqueLoop(newSheetName, Candidate(newSheetName, counter), counter + 1, sheets)
  ELSE finalSheetName

\* line 154: how often the condition of the while loop is evaluated
RECURSIVE UniqueLoopTests(_, _, _, _)
UniqueLoopTests(newSheetName, finalSheetName, counter, sheets) ==
  IF finalSheetName \in DOMAIN sheets
  THEN 1 + UniqueLoopTests(newSheetName, Candidate(newSheetName, counter), counter + 1, sheets)
  ELSE 1

FinalSheetName(newSheetName, sheets) == UniqueLoop(newSheetName, newSheetName, 1, sheets)

\* OriginalSheet handing out a copy: an object no analysis holds
OriginalSheetCopy(analysis, worksheet) == [wb |-> 0, sheet |-> worksheet.name]

\* line 139: the sheet object itself, not a copy of it
OriginalSheet(analysis, worksheet) == analysis.workbook.Sheets[worksheet.name]

\* lines 128-130
RECURSIVE CountSheets(_, _)
CountSheets(analyses, n) ==
  IF n = 0 THEN 0 ELSE CountSheets(analyses, n - 1) + Len(analyses[n].worksheets)
\* TotalSheets counting the workbooks instead of their worksheets
TotalSheetsPerFile(analyses) == Len(analyses)

TotalSheets(analyses) == CountSheets(analyses, Len(analyses))

\* Progress with Math.floor in place of Math.round
ProgressFloor(processed, total) == (100 * processed) \div total

\* line 168: Math.round(x) is floor(x + 0.5). For the totals the model reaches
\* the quotient times 100 is exact wherever it lies halfway between two
\* integers, so the integer formula gives what the floating-point one gives.
Progress(processed, total) == (200 * processed + total) \div (2 * total)

NoDownload == [fileName |-> <<>>, sheetCount |-> -1]
\* XLSX.utils.book_new(): no sheet yet; the keys of Sheets are the names placed
EmptySheets == [n \in {} |-> n]

Combined == <<"_", "c", "o", "m", "b", "i", "n", "e", "d">> \o Xlsx

InitCombine ==
  /\ workbookAnalyses \in AnalysesInputs
  /\ pc = "called"
  /\ analysisIndex = 0
  /\ sheetIndex = 0
  /\ SheetNames = <<>>
  /\ Sheets = EmptySheets
  /\ totalSheets = 0
  /\ processedSheets = 0
  /\ progressLog = <<>>
  /\ download = NoDownload
  /\ run = 1
  /\ lastSheetNames = <<>>

\* lines 119-130: after the first delay, a new workbook and the sheet count
CombineBegin ==
  /\ pc = "called"
  /\ SheetNames' = <<>>
  /\ Sheets' = EmptySheets
  /\ totalSheets' = TotalSheets(workbookAnalyses)
  /\ processedSheets' = 0
  /\ analysisIndex' = 0
  /\ sheetIndex' = 0
  /\ pc' = "loop"
  /\ UNCHANGED <<workbookAnalyses, progressLog, download, run, lastSheetNames, nonCombineVars>>

\* lines 137-165: one worksheet is named and appended
AppendSheet ==
  /\ pc = "loop"
  /\ analysisIndex < Len(workbookAnalyses)
  /\ sheetIndex < Len(workbookAnalyses[analysisIndex + 1].worksheets)
  /\ LET analysis == workbookAnalyses[analysisIndex + 1]
         fileBaseName == StripExtension(analysis.file.name)
         worksheet == analysis.worksheets[sheetIndex + 1]
         originalSheet == OriginalSheet(analysis, worksheet)
         newSheetName == NewSheetName(fileBaseName, worksheet.name)
         finalSheetName == FinalSheetName(newSheetName, Sheets)
     IN /\ Sheets' = [n \in DOMAIN Sheets \cup {finalSheetName} |->
                        IF n = finalSheetName THEN originalSheet ELSE Sheets[n]]
        /\ SheetNames' = Append(SheetNames, finalSheetName)
  /\ processedSheets' = processedSheets + 1
  /\ pc' = "appended"
  /\ UNCHANGED <<workbookAnalyses, analysisIndex, sheetIndex, totalSheets, progressLog,
                 download, run, lastSheetNames, nonCombineVars>>

\* lines 167-173: onProgress, the callback handleCombineFiles passes, is invoked,
\* then the inner loop advances
ReportProgress ==
  /\ pc = "appended"
  /\ progressLog' = Append(progressLog, Progress(processedSheets, totalSheets))
  /\ sheetIndex' = sheetIndex + 1
  /\ pc' = "loop"
  /\ UNCHANGED <<workbookAnalyses, analysisIndex, SheetNames, Sheets, totalSheets,
                 processedSheets, download, run, lastSheetNames, nonCombineVars>>

\* lines 133-137: the inner loop is over, the outer loop advances
NextAnalysis ==
  /\ pc = "loop"
  /\ analysisIndex < Len(workbookAnalyses)
  /\ sheetIndex >= Len(workbookAnalyses[analysisIndex + 1].worksheets)
  /\ analysisIndex' = analysisIndex + 1
  /\ sheetIndex' = 0
  /\ UNCHANGED <<workbookAnalyses, pc, SheetNames, Sheets, totalSheets, processedSheets,
                 progressLog, download, run, lastSheetNames, nonCombineVars>>

\* line 177
CombineReturn ==
  /\ pc = "loop"
  /\ analysisIndex >= Len(workbookAnalyses)
  /\ pc' = "returned"
  /\ UNCHANGED <<workbookAnalyses, analysisIndex, sheetIndex, SheetNames, Sheets, totalSheets,
                 processedSheets, progressLog, download, run, lastSheetNames, nonCombineVars>>

\* generateCombinedExcel on the returned workbook, named after the first file
GenerateCombinedExcel ==
  /\ pc = "returned"
  /\ download' = [fileName |-> StripExtension(workbookAnalyses[1].file.name) \o Combined,
                  sheetCount |-> Len(SheetNames)]
  /\ pc' = "complete"
  /\ UNCHANGED <<workbookAnalyses, analysisIndex, sheetIndex, SheetNames, Sheets, totalSheets,
                 processedSheets, progressLog, run, lastSheetNames, nonCombineVars>>

\* combineAllSheets is invoked once more on the same analyses
CombineAgain ==
  /\ pc = "complete"
  /\ run < MaxRuns
  /\ run' = run + 1
  /\ lastSheetNames' = SheetNames
  /\ progressLog' = <<>>
  /\ download' = NoDownload
  /\ pc' = "called"
  /\ UNCHANGED <<workbookAnalyses, analysisIndex, sheetIndex, SheetNames, Sheets, totalSheets,
                 processedSheets, nonCombineVars>>

NextCombine ==
  \/ CombineBegin
  \/ AppendSheet
  \/ ReportProgress
  \/ NextAnalysis
  \/ CombineReturn
  \/ GenerateCombinedExcel
  \/ CombineAgain

----------------------------------------------------------------------------
(* validateFile *)

MaxFileSize == 52428800    \* 50 * 1024 * 1024

XlsxType == "application/vnd.openxmlformats-officedocument.spreadsheetml.sheet"
XlsType == "application/vnd.ms-excel"
validTypes == {XlsxType, XlsType}
validExtensions == {Xlsx, Xls}

FormatError == "Please upload a valid Excel file (.xlsx or .xls)"
SizeError == "File size must be less than 50MB"

\* line 17: the index is taken in the name as given, the slice in its lower-cased form
FileExtension(name) == Slice(ToLowerCase(name), LastIndexOf(name, "."))

\* ValidateFile rejecting a file of exactly the size limit
ValidateFileBelowLimit(file) ==
  IF file.type \notin validTypes /\ FileExtension(file.name) \notin validExtensions
  THEN FormatError
  ELSE IF file.size >= MaxFileSize
       THEN SizeError
       ELSE "ok"

\* lines 19-27: "ok" for return true, otherwise the message of the error thrown
ValidateFile(file) ==
  IF file.type \notin validTypes /\ FileExtension(file.name) \notin validExtensions
  THEN FormatError
  ELSE IF file.size > MaxFileSize
       THEN SizeError
       ELSE "ok"

ValidateNames ==
  { <<"a">> \o Xlsx, <<"a">> \o Xls, <<"A", ".", "X", "L", "S", "X">>,
    <<"a", ".", "b", ".", "X", "l", "s">>, <<"a", ".", "c", "s", "v">>,
    <<"x", "l", "s", "x">>, <<"a">> \o Xlsx \o <<".", "t", "x", "t">>,
    <<"a", ".">>, Xls, <<"a", ".", "x", "l", "s", "x", "x">> }
ValidateTypes == {XlsxType, XlsType, "", "text/csv"}
ValidateSizes == {0, MaxFileSize - 1, MaxFileSize, MaxFileSize + 1}

InitValidate ==
  /\ vFile \in [name : ValidateNames, type : ValidateTypes, size : ValidateSizes]
  /\ vResult = "pending"

ValidateFileStep ==
  /\ vResult = "pending"
  /\ vResult' = ValidateFile(vFile)
  /\ UNCHANGED <<vFile, nonValidateVars>>

NextValidate == ValidateFileStep

----------------------------------------------------------------------------
(* The files of a batch *)

\* a file: what validateFile looks at, and what reading it gives: a workbook
\* with the sheets named in content, a container XLSX.read throws on
\* ("corrupt"), or an error of the FileReader ("unreadable")
IsWorkbook(file) == file.reads = "workbook"

GoodFileA == [name |-> ShortFile, type |-> XlsxType, size |-> 1024,
              reads |-> "workbook", content |-> <<SheetS>>]
GoodFileB == [name |-> <<"a">> \o Xls, type |-> "", size |-> MaxFileSize,
              reads |-> "workbook", content |-> <<SheetS, SheetS1>>]
BadFormatFile == [name |-> <<"a", ".", "c", "s", "v">>, type |-> "text/csv", size |-> 1024,
                  reads |-> "corrupt", content |-> <<>>]
TooLargeFile == [name |-> Long29File, type |-> XlsxType, size |-> MaxFileSize + 1,
                 reads |-> "workbook", content |-> <<SheetS>>]
CorruptFile == [name |-> <<"c">> \o Xlsx, type |-> XlsxType, size |-> 1024,
                reads |-> "corrupt", content |-> <<>>]
UnreadableFile == [name |-> <<"u">> \o Xlsx, type |-> XlsxType, size |-> 1024,
                   reads |-> "unreadable", content |-> <<>>]

Batches(pool) == UNION {[1..n -> pool] : n \in 1..MaxBatch}

----------------------------------------------------------------------------
(* validateMultipleFiles *)

\* a call: the files, the loop index i, the files handed to validateFile so far
\* (by position), the errors collected, and the outcome
ValidateManyCall(files) ==
  [files |-> files, i |-> 0, checked |-> <<>>, errors |-> <<>>,
   status |-> "pending", count |-> 0, lines |-> <<>>]
NoValidateMany == ValidateManyCall(<<>>)

\* line 39: `${files[i].name}: ${error.message}`
ErrorLine(file, message) == [name |-> file.name, message |-> message]

\* lines 36-40
CollectError(errors, file) ==
  IF ValidateFile(file) = "ok" THEN errors
  ELSE Append(errors, ErrorLine(file, ValidateFile(file)))

\* ValidateManyNext giving up at the first file that fails
ValidateManyNextFailFast(call) ==
  IF call.i < Len(call.files)
  THEN LET file == call.files[call.i + 1]
       IN IF ValidateFile(file) = "ok"
          THEN [call EXCEPT !.i = @ + 1, !.checked = Append(@, call.i + 1)]
          ELSE [call EXCEPT !.i = @ + 1, !.checked = Append(@, call.i + 1),
                            !.errors = CollectError(@, file),
                            !.status = "failed", !.count = 1,
                            !.lines = CollectError(call.errors, file)]
  ELSE [call EXCEPT !.status = "ok"]

\* lines 35-47: one loop iteration, or what follows the loop: the aggregate
\* error `Validation failed for ${errors.length} file(s):\n${errors.join('\n')}`
\* when an error was collected, return true otherwise
ValidateManyNext(call) ==
  IF call.i < Len(call.files)
  THEN [call EXCEPT !.i = @ + 1,
                    !.checked = Append(@, call.i + 1),
                    !.errors = CollectError(@, call.files[call.i + 1])]
  ELSE IF Len(call.errors) > 0
       THEN [call EXCEPT !.status = "failed", !.count = Len(call.errors),
                         !.lines = call.errors]
       ELSE [call EXCEPT !.status = "ok"]

ValidateManyPool == {GoodFileA, GoodFileB, BadFormatFile, TooLargeFile}

InitValidateMany == vm \in {ValidateManyCall(f) : f \in Batches(ValidateManyPool)}

\* validateMultipleFiles validates the next file
ValidateManyStep ==
  /\ vm.status = "pending"
  /\ vm.i < Len(vm.files)
  /\ vm' = ValidateManyNext(vm)
  /\ UNCHANGED <<combineVars, validateVars, am, clock, componentVars>>

\* validateMultipleFiles throws or returns
ValidateManyFinish ==
  /\ vm.status = "pending"
  /\ vm.i >= Len(vm.files)
  /\ vm' = ValidateManyNext(vm)
  /\ UNCHANGED <<combineVars, validateVars, am, clock, componentVars>>

NextValidateMany == ValidateManyStep \/ ValidateManyFinish

----------------------------------------------------------------------------
(* analyzeWorkbook, analyzeMultipleWorkbooks *)

CorruptError == "Failed to read Excel file. Please ensure it is not corrupted."
ReadError == "Failed to read file"

\* lines 56-92: the error analyzeWorkbook rejects with, "" when it resolves
AnalyzeError(file) ==
  IF file.reads = "unreadable" THEN ReadError
  ELSE IF file.reads = "corrupt" THEN CorruptError
  ELSE ""

\* lines 61-84 and 109: the analysis of a readable workbook; analyzeMultipleWorkbooks
\* replaces the Id of line 76 by its own before anyone reads it
AnalyzeWorkbook(file, id) ==
  [file |-> [Id |-> id, name |-> file.name, size |-> file.size],
   worksheets |-> [i \in 1..Len(file.content) |-> [name |-> file.content[i], index |-> i - 1]],
   workbook |-> [SheetNames |-> file.content,
                 Sheets |-> [n \in {file.content[i] : i \in 1..Len(file.content)} |->
                               SheetObject(id, n)]]]

\* a call: the files, the loop variable fileIndex, the positions analyzeWorkbook
\* was called for, the local results, and the outcome. The Error thrown at line
\* 112 carries a message and nothing else.
AnalyzeManyCall(files) ==
  [files |-> files, fileIndex |-> 0, analyzed |-> <<>>, results |-> <<>>,
   status |-> "pending", returned |-> <<>>, errorName |-> <<>>, errorMessage |-> "",
   errorContext |-> <<>>]
NoAnalyzeMany == AnalyzeManyCall(<<>>)

\* AnalyzeManyNext going on to the next file after a failure
AnalyzeManyNextSkip(call, now) ==
  IF call.fileIndex < Len(call.files)
  THEN LET file == call.files[call.fileIndex + 1]
       IN IF AnalyzeError(file) = ""
          THEN [call EXCEPT !.fileIndex = @ + 1,
                            !.analyzed = Append(@, call.fileIndex + 1),
                            !.results = Append(@, AnalyzeWorkbook(file, now + call.fileIndex))]
          ELSE [call EXCEPT !.fileIndex = @ + 1,
                            !.analyzed = Append(@, call.fileIndex + 1)]
  ELSE [call EXCEPT !.status = "returned", !.returned = call.results]

\* lines 103-116: one loop iteration at clock value now, or the return
AnalyzeManyNext(call, now) ==
  IF call.fileIndex < Len(call.files)
  THEN LET file == call.files[call.fileIndex + 1]
       IN IF AnalyzeError(file) = ""
          THEN [call EXCEPT !.fileIndex = @ + 1,
                            !.analyzed = Append(@, call.fileIndex + 1),
                            !.results = Append(@, AnalyzeWorkbook(file, now + call.fileIndex))]
          ELSE [call EXCEPT !.analyzed = Append(@, call.fileIndex + 1),
                            !.status = "failed",
                            !.errorName = file.name,
                            !.errorMessage = AnalyzeError(file)]
  ELSE [call EXCEPT !.status = "returned", !.returned = call.results]

AnalyzeManyPool == {GoodFileA, GoodFileB, CorruptFile, UnreadableFile}

InitAnalyzeMany ==
  /\ am \in {AnalyzeManyCall(f) : f \in Batches(AnalyzeManyPool)}
  /\ clock = 0

\* time passes
Tick ==
  /\ clock < MaxClock
  /\ clock' = clock + 1
  /\ UNCHANGED <<combineVars, validateVars, vm, am, componentVars>>

\* analyzeMultipleWorkbooks analyzes the next file
AnalyzeManyStep ==
  /\ am.status = "pending"
  /\ am.fileIndex < Len(am.files)
  /\ am' = AnalyzeManyNext(am, clock)
  /\ UNCHANGED <<combineVars, validateVars, vm, clock, componentVars>>

\* analyzeMultipleWorkbooks returns its results
AnalyzeManyReturn ==
  /\ am.status = "pending"
  /\ am.fileIndex >= Len(am.files)
  /\ am' = AnalyzeManyNext(am, clock)
  /\ UNCHANGED <<combineVars, validateVars, vm, clock, componentVars>>

NextAnalyzeMany == Tick \/ AnalyzeManyStep \/ AnalyzeManyReturn

----------------------------------------------------------------------------
(* combineAllSheets as one invocation among others on the service instance *)

\* an invocation: its argument, where it stands, its locals (the loop variables,
\* combinedWorkbook, the two counters) and the values it gave onProgress
CombineCall(analyses) ==
  [analyses |-> analyses, pc |-> "called", analysisIndex |-> 0, sheetIndex |-> 0,
   SheetNames |-> <<>>, Sheets |-> EmptySheets, totalSheets |-> 0, processedSheets |-> 0,
   progress |-> <<>>]
NoCombineCall == [CombineCall(<<>>) EXCEPT !.pc = "idle"]

\* SheetsSeen reading one workbook kept on the service instance: the names the
\* other invocations placed are seen as well
SheetsSeenShared(call, others) ==
  [n \in DOMAIN call.Sheets \cup UNION {DOMAIN o.Sheets : o \in others} |-> TRUE]

\* lines 123 and 154: combinedWorkbook is a local of the invocation, made by
\* XLSX.utils.book_new(); the class has no field, so nothing of the other
\* invocations is within reach of the lookup
SheetsSeen(call, others) == call.Sheets

\* lines 133-137: the loop variables at the next worksheet, or past the last analysis
RECURSIVE LoopPosition(_, _, _)
LoopPosition(analyses, a, s) ==
  IF a < Len(analyses) /\ s >= Len(analyses[a + 1].worksheets)
  THEN LoopPosition(analyses, a + 1, 0)
  ELSE <<a, s>>

\* lines 123-130, run when the first delay is over
CombineBegun(call) ==
  IF call.pc = "called"
  THEN [call EXCEPT !.pc = "loop", !.totalSheets = TotalSheets(call.analyses)]
  ELSE call

\* what one invocation does between two awaits: the next worksheet is named,
\* appended and reported (lines 133-171, up to the delay of line 173), or the
\* workbook is returned (line 177)
CombineNext(call, others) ==
  LET c == CombineBegun(call)
      pos == LoopPosition(c.analyses, c.analysisIndex, c.sheetIndex)
  IN IF pos[1] < Len(c.analyses)
     THEN LET analysis == c.analyses[pos[1] + 1]
              fileBaseName == StripExtension(analysis.file.name)
              worksheet == analysis.worksheets[pos[2] + 1]
              originalSheet == OriginalSheet(analysis, worksheet)
              newSheetName == NewSheetName(fileBaseName, worksheet.name)
              finalSheetName == FinalSheetName(newSheetName, SheetsSeen(c, others))
          IN [c EXCEPT !.analysisIndex = pos[1],
                       !.sheetIndex = pos[2] + 1,
                       !.Sheets = [n \in DOMAIN c.Sheets \cup {finalSheetName} |->
                                     IF n = finalSheetName THEN originalSheet ELSE c.Sheets[n]],
                       !.SheetNames = Append(@, finalSheetName),
                       !.processedSheets = @ + 1,
                       !.progress = Append(@, Progress(c.processedSheets + 1, c.totalSheets))]
     ELSE [c EXCEPT !.analysisIndex = pos[1], !.sheetIndex = pos[2], !.pc = "returned"]

----------------------------------------------------------------------------
(* FileProcessor: the React state, the user's events, the asynchronous handlers *)

\* err.message of the error a handler catches; null is NullError
NullError == [kind |-> "null", count |-> 0, lines |-> <<>>, name |-> <<>>, message |-> ""]
\* line 44
ValidationMessage(call) ==
  [kind |-> "validation", count |-> call.count, lines |-> call.lines, name |-> <<>>,
   message |-> ""]
\* line 112
AnalysisMessage(call) ==
  [kind |-> "analysis", count |-> 0, lines |-> <<>>, name |-> call.errorName,
   message |-> call.errorMessage]
\* whatever XLSX.write throws
EncodeMessage ==
  [kind |-> "encode", count |-> 0, lines |-> <<>>, name |-> <<>>, message |-> "XLSX.write"]

\* lines 13-20, and what resetState (lines 22-31) sets
InitialState ==
  [files |-> <<>>, workbookAnalyses |-> <<>>, totalWorksheets |-> 0, stage |-> "idle",
   progress |-> 0, currentWorksheet |-> <<>>, downloadReady |-> NoDownload,
   error |-> NullError]

\* what an asynchronous handler reads of the state: the values of the render it
\* was created in, whatever is set afterwards
Closure(state) ==
  [files |-> state.files, workbookAnalyses |-> state.workbookAnalyses,
   totalWorksheets |-> state.totalWorksheets]

\* an invocation of handleFileSelect ("select"), handleAddMoreFiles ("add") or
\* handleCombineFiles ("combine") in flight: where it stands, its argument, its
\* closure and the service calls it awaits; NoHandler once it is over
NoHandler ==
  [kind |-> "none", pc |-> "idle", batch |-> <<>>, closure |-> Closure(InitialState),
   v |-> NoValidateMany, a |-> NoAnalyzeMany, c |-> NoCombineCall]

HandlerSlots == {1, 2}
InFlight(h) == h.pc \in {"validate", "analyze", "combine", "encode"}
\* a new invocation takes the first slot no invocation in flight holds
FreeSlot(hs, k) == ~InFlight(hs[k]) /\ \A j \in HandlerSlots : j < k => InFlight(hs[j])

\* lines 33-37, 65-69: the entry of handleFileSelect and handleAddMoreFiles
StartUpload(state) == [state EXCEPT !.error = NullError, !.stage = "upload", !.progress = 0]
UploadHandler(kind, state, batch) ==
  [kind |-> kind, pc |-> "validate", batch |-> batch, closure |-> Closure(state),
   v |-> ValidateManyCall(batch), a |-> NoAnalyzeMany, c |-> NoCombineCall]

\* CatchError throwing away what the component holds
CatchErrorReset(state, message) == [InitialState EXCEPT !.error = message]

\* lines 58-61, 95-98, 151-154: the catch block
CatchError(state, message) == [state EXCEPT !.error = message, !.stage = "idle"]

\* AfterValidation going on to the analysis whatever validateMultipleFiles did
AfterValidationAnyway(handler, v) ==
  [handler EXCEPT !.v = v, !.pc = "analyze", !.a = AnalyzeManyCall(handler.batch)]

\* lines 40-47, 72-79: validateMultipleFiles has settled as v; the handler calls
\* analyzeMultipleWorkbooks when it returned; when it threw the handler runs its
\* catch block and is over
AfterValidation(handler, v) ==
  IF v.status = "ok"
  THEN [handler EXCEPT !.v = v, !.pc = "analyze", !.a = AnalyzeManyCall(handler.batch)]
  ELSE NoHandler

\* lines 41-44, 73-76
StartAnalyze(state) == [state EXCEPT !.stage = "analyze", !.progress = 0]

FilesOf(analyses) == [i \in 1..Len(analyses) |-> analyses[i].file]

\* Publish appending to the files held now and to the analyses of the closure
PublishMixed(state, handler, analyses) ==
  IF handler.kind = "select"
  THEN [state EXCEPT !.files = FilesOf(analyses),
                     !.workbookAnalyses = analyses,
                     !.totalWorksheets = TotalSheets(analyses),
                     !.stage = "idle", !.progress = 100]
  ELSE [state EXCEPT !.files = state.files \o FilesOf(analyses),
                     !.workbookAnalyses = handler.closure.workbookAnalyses \o analyses,
                     !.totalWorksheets = handler.closure.totalWorksheets + TotalSheets(analyses),
                     !.stage = "idle", !.progress = 100]

\* lines 49-55 (handleFileSelect) and 81-92 (handleAddMoreFiles)
Publish(state, handler, analyses) ==
  IF handler.kind = "select"
  THEN [state EXCEPT !.files = FilesOf(analyses),
                     !.workbookAnalyses = analyses,
                     !.totalWorksheets = TotalSheets(analyses),
                     !.stage = "idle", !.progress = 100]
  ELSE [state EXCEPT !.files = handler.closure.files \o FilesOf(analyses),
                     !.workbookAnalyses = handler.closure.workbookAnalyses \o analyses,
                     !.totalWorksheets = handler.closure.totalWorksheets + TotalSheets(analyses),
                     !.stage = "idle", !.progress = 100]

\* the worksheet names of the analyses in combine order
RECURSIVE WorksheetNames(_, _)
WorksheetNames(analyses, n) ==
  IF n = 0 THEN <<>>
  ELSE WorksheetNames(analyses, n - 1)
         \o [i \in 1..Len(analyses[n].worksheets) |-> analyses[n].worksheets[i].name]

\* line 117: Math.floor((progressValue / 100) * totalSheets); for the whole
\* percentages combineAllSheets reports and fewer than 41 sheets the floating
\* point product has the floor of the exact one
CurrentSheetIndex(progressValue, sheets) == (progressValue * sheets) \div 100

\* lines 113-136: the callback handleCombineFiles hands to combineAllSheets
OnProgress(state, analyses, progressValue) ==
  LET names == WorksheetNames(analyses, Len(analyses))
      currentSheetIndex == CurrentSheetIndex(progressValue, Len(names))
  IN IF progressValue < 100 /\ currentSheetIndex < Len(names)
        /\ Len(names[currentSheetIndex + 1]) > 0
     THEN [state EXCEPT !.progress = progressValue,
                        !.currentWorksheet = names[currentSheetIndex + 1]]
     ELSE [state EXCEPT !.progress = progressValue]

\* lines 105-111
StartCombine(state) == [state EXCEPT !.error = NullError, !.stage = "combine", !.progress = 0]
CombineHandler(state) ==
  [kind |-> "combine", pc |-> "combine", batch |-> <<>>, closure |-> Closure(state),
   v |-> NoValidateMany, a |-> NoAnalyzeMany, c |-> CombineCall(state.workbookAnalyses)]

\* lines 139-140
StartDownload(state) == [state EXCEPT !.stage = "download", !.progress = 0]

\* line 143 and lines 180-200: the artifact, named after the first file held
BaseFileName(files) ==
  IF Len(files) > 0 THEN StripExtension(files[1].name)
  ELSE <<"c", "o", "m", "b", "i", "n", "e", "d">>
CombinedExcel(handler) ==
  [fileName |-> BaseFileName(handler.closure.files) \o Combined,
   sheetCount |-> Len(handler.c.SheetNames)]

\* lines 146-148
Complete(state, result) ==
  [state EXCEPT !.downloadReady = result, !.stage = "complete", !.progress = 100]

\* lines 170-181
RECURSIVE RemoveById(_, _)
RemoveById(analyses, fileId) ==
  IF Len(analyses) = 0 THEN <<>>
  ELSE IF analyses[1].file.Id # fileId
       THEN <<analyses[1]>> \o RemoveById(Tail(analyses), fileId)
       ELSE RemoveById(Tail(analyses), fileId)
RECURSIVE RemoveFileById(_, _)
RemoveFileById(files, fileId) ==
  IF Len(files) = 0 THEN <<>>
  ELSE IF files[1].Id # fileId
       THEN <<files[1]>> \o RemoveFileById(Tail(files), fileId)
       ELSE RemoveFileById(Tail(files), fileId)
HandleRemoveFile(state, fileId) ==
  LET updatedAnalyses == RemoveById(state.workbookAnalyses, fileId)
      updatedFiles == RemoveFileById(state.files, fileId)
  IN IF Len(updatedFiles) = 0 THEN InitialState
     ELSE [state EXCEPT !.workbookAnalyses = updatedAnalyses,
                        !.files = updatedFiles,
                        !.totalWorksheets = TotalSheets(updatedAnalyses)]

\* what is on screen (lines 190, 223, 248, 278, 330-357)
UploadZoneShown(state) == state.stage = "idle" /\ Len(state.files) = 0
FilesShown(state) == Len(state.files) > 0 /\ state.stage \notin {"combine", "download"}
AddMoreEnabled(state) == FilesShown(state) /\ state.stage = "idle"
CombineEnabled(state) ==
  /\ FilesShown(state)
  /\ ~(state.stage = "complete" /\ state.downloadReady # NoDownload)
  /\ state.stage = "idle"
  /\ state.totalWorksheets # 0
ResetShown(state) == state.error # NullError \/ FilesShown(state)

\* the batches the user picks
UiBatches ==
  { <<GoodFileA>>, <<GoodFileA, GoodFileB>>, <<BadFormatFile, GoodFileA>>,
    <<GoodFileB, CorruptFile>> }

InitUi ==
  /\ ui = InitialState
  /\ handlers = [k \in HandlerSlots |-> NoHandler]
  /\ started = 0

\* files are dropped on, or chosen in, the upload zone: handleFileSelect starts
SelectFiles ==
  \E k \in HandlerSlots, batch \in UiBatches :
    /\ UploadZoneShown(ui)
    /\ FreeSlot(handlers, k)
    /\ ui' = StartUpload(ui)
    /\ handlers' = [handlers EXCEPT ![k] = UploadHandler("select", ui, batch)]
    /\ started < MaxStarts
    /\ started' = started + 1
    /\ UNCHANGED <<nonUiVars, clock>>

\* files are chosen after "Add More Files": handleAddMoreFiles starts
AddMoreFiles ==
  \E k \in HandlerSlots, batch \in UiBatches :
    /\ AddMoreEnabled(ui)
    /\ Len(ui.files) + Len(batch) <= MaxFiles
    /\ FreeSlot(handlers, k)
    /\ ui' = StartUpload(ui)
    /\ handlers' = [handlers EXCEPT ![k] = UploadHandler("add", ui, batch)]
    /\ started < MaxStarts
    /\ started' = started + 1
    /\ UNCHANGED <<nonUiVars, clock>>

\* validateMultipleFiles, awaited by a handler, validates its next file
HandlerValidate ==
  \E k \in HandlerSlots :
    /\ handlers[k].pc = "validate"
    /\ handlers[k].v.i < Len(handlers[k].v.files)
    /\ handlers' = [handlers EXCEPT ![k].v = ValidateManyNext(@)]
    /\ UNCHANGED <<ui, started, nonUiVars, clock>>

\* validateMultipleFiles returns or throws, the handler goes on
HandlerValidated ==
  \E k \in HandlerSlots :
    /\ handlers[k].pc = "validate"
    /\ handlers[k].v.i >= Len(handlers[k].v.files)
    /\ LET v == ValidateManyNext(handlers[k].v)
           handler == AfterValidation(handlers[k], v)
       IN /\ handlers' = [handlers EXCEPT ![k] = handler]
          /\ ui' = IF v.status = "ok" THEN StartAnalyze(ui)
                   ELSE CatchError(ui, ValidationMessage(v))
    /\ UNCHANGED <<started, nonUiVars, clock>>

\* analyzeMultipleWorkbooks, awaited by a handler, analyzes its next file; when
\* it throws the handler is in its catch block
HandlerAnalyze ==
  \E k \in HandlerSlots :
    /\ handlers[k].pc = "analyze"
    /\ handlers[k].a.fileIndex < Len(handlers[k].a.files)
    /\ LET a == AnalyzeManyNext(handlers[k].a, clock)
       IN IF a.status = "failed"
          THEN /\ handlers' = [handlers EXCEPT ![k] = NoHandler]
               /\ ui' = CatchError(ui, AnalysisMessage(a))
          ELSE /\ handlers' = [handlers EXCEPT ![k].a = a]
               /\ ui' = ui
    /\ UNCHANGED <<started, nonUiVars, clock>>

\* analyzeMultipleWorkbooks returns, the handler publishes the analyses
HandlerAnalyzed ==
  \E k \in HandlerSlots :
    /\ handlers[k].pc = "analyze"
    /\ handlers[k].a.fileIndex >= Len(handlers[k].a.files)
    /\ LET a == AnalyzeManyNext(handlers[k].a, clock)
       IN /\ handlers' = [handlers EXCEPT ![k] = NoHandler]
          /\ ui' = Publish(ui, handlers[k], a.returned)
    /\ UNCHANGED <<started, nonUiVars, clock>>

\* "Combine All Files": handleCombineFiles starts (its guard of line 103 passed)
CombineFiles ==
  \E k \in HandlerSlots :
    /\ CombineEnabled(ui)
    /\ Len(ui.workbookAnalyses) > 0
    /\ FreeSlot(handlers, k)
    /\ ui' = StartCombine(ui)
    /\ handlers' = [handlers EXCEPT ![k] = CombineHandler(ui)]
    /\ started < MaxStarts
    /\ started' = started + 1
    /\ UNCHANGED <<nonUiVars, clock>>

\* combineAllSheets, awaited by a handler, places a worksheet and reports it, or
\* returns and the handler calls generateCombinedExcel
HandlerCombine ==
  \E k \in HandlerSlots :
    /\ handlers[k].pc = "combine"
    /\ LET c == CombineNext(handlers[k].c,
                            {handlers[j].c : j \in HandlerSlots \ {k}})
       IN IF c.pc = "returned"
          THEN /\ handlers' = [handlers EXCEPT ![k].c = c, ![k].pc = "encode"]
               /\ ui' = StartDownload(ui)
          ELSE /\ handlers' = [handlers EXCEPT ![k].c = c]
               /\ ui' = OnProgress(ui, handlers[k].closure.workbookAnalyses,
                                   c.progress[Len(c.progress)])
    /\ UNCHANGED <<started, nonUiVars, clock>>

\* generateCombinedExcel returns the artifact, or XLSX.write throws
HandlerEncode ==
  \E k \in HandlerSlots, written \in BOOLEAN :
    /\ handlers[k].pc = "encode"
    /\ IF written
       THEN /\ handlers' = [handlers EXCEPT ![k] = NoHandler]
            /\ ui' = Complete(ui, CombinedExcel(handlers[k]))
       ELSE /\ handlers' = [handlers EXCEPT ![k] = NoHandler]
            /\ ui' = CatchError(ui, EncodeMessage)
    /\ UNCHANGED <<started, nonUiVars, clock>>

\* the X of a file row: handleRemoveFile
RemoveFile ==
  \E i \in 1..Len(ui.files) :
    /\ FilesShown(ui)
    /\ ui' = HandleRemoveFile(ui, ui.files[i].Id)
    /\ UNCHANGED <<handlers, started, nonUiVars, clock>>

\* "Try Again", "Clear All", "Process More Files": resetState
ResetState ==
  /\ ResetShown(ui)
  /\ ui' = InitialState
  /\ UNCHANGED <<handlers, started, nonUiVars, clock>>

NextUi ==
  \/ Tick
  \/ SelectFiles
  \/ AddMoreFiles
  \/ HandlerValidate
  \/ HandlerValidated
  \/ HandlerAnalyze
  \/ HandlerAnalyzed
  \/ CombineFiles
  \/ HandlerCombine
  \/ HandlerEncode
  \/ RemoveFile
  \/ ResetState

----------------------------------------------------------------------------
(* Two combineAllSheets invocations on the one FileProcessingService *)

\* the analyses handed to the two invocations
PairInputs ==
  { <<Analysis(1, ShortFile, <<SheetS, SheetS1>>)>>,
    <<Analysis(1, ShortFile, <<SheetS>>), Analysis(2, ShortFile, <<SheetS>>)>>,
    <<Analysis(1, Long29File, <<SheetS>>)>>,
    <<Analysis(1, Long29File, TenSheets), Analysis(2, Long29File, <<SheetS>>)>> }

\* line 296: both callers hold the same instance; both invocations are called
InitPair == calls \in [{1, 2} -> {CombineCall(p) : p \in PairInputs}]

\* one of the invocations runs from one await to its next
InvocationStep ==
  \E k \in {1, 2} :
    /\ calls[k].pc \in {"called", "loop"}
    /\ calls' = [calls EXCEPT ![k] = CombineNext(@, {calls[j] : j \in {1, 2} \ {k}})]
    /\ UNCHANGED <<combineVars, validateVars, batchVars, uiVars, rd, zip>>

NextPair == InvocationStep

----------------------------------------------------------------------------
(* processWorksheets: one worksheet rendered to a PDF document *)

Margin == 10
LineHeight == 6
\* pdf.internal.pageSize.getHeight() of an a4 portrait page in mm. jsPDF gives
\* 841.89 pt / (72 / 25.4) = 297.0000833...; every y the code compares with
\* pageHeight - margin - lineHeight is an integer, and an integer exceeds
\* 281.0000833... exactly when it exceeds 281.
PageHeight == 297
MaxColumns == 8
MaxCellLength == 15
Ellipsis == <<".", ".", ".">>

\* a cell of sheet_to_json(sheet, {header: 1, defval: ''}): the raw value, given
\* by its JavaScript type and its String() coercion; a blank cell is the string ''
Str(text) == [type |-> "string", text |-> text]
Num(text) == [type |-> "number", text |-> text]
Bool(text) == [type |-> "boolean", text |-> text]
Blank == Str(<<>>)
FalseText == <<"f", "a", "l", "s", "e">>
TrueText == <<"t", "r", "u", "e">>

\* the values JavaScript takes for false in `row[colIndex] || ''`
Falsy(cell) ==
  \/ cell.type = "string" /\ cell.text = <<>>
  \/ cell.type = "number" /\ cell.text = <<"0">>
  \/ cell.type = "boolean" /\ cell.text = FalseText

\* line 243: String(row[colIndex] || '')
CellValue(cell) == IF Falsy(cell) THEN <<>> ELSE cell.text

\* lines 246-250: the text handed to pdf.text
CellText(cellValue) ==
  IF Len(cellValue) > MaxCellLength
  THEN Substring(cellValue, 0, MaxCellLength) \o Ellipsis
  ELSE cellValue

\* DrawnColumns with no limit on the columns
DrawnColumnsAll(row) == Len(row)

\* line 242: colIndex < row.length && colIndex < 8
DrawnColumns(row) == Min(Len(row), MaxColumns)

\* NeedsNewPage looking at the margin only, not at the height of the line
NeedsNewPageLate(yPosition) == yPosition > PageHeight - Margin

\* line 236
NeedsNewPage(yPosition) == yPosition > PageHeight - Margin - LineHeight

\* a rendering: the rows of jsonData, the loop variable rowIndex, yPosition, the
\* page drawn on, and what was drawn: for every row its line (y and page), for
\* every pdf.text call of a cell its row, column, text, y and page
RenderCall(rows) ==
  [rows |-> rows, pc |-> "called", rowIndex |-> 0, yPosition |-> 0, page |-> 1,
   lines |-> <<>>, drawn |-> <<>>]
NoRender == [RenderCall(<<>>) EXCEPT !.pc = "idle"]

\* lines 222-227: the title is drawn at margin + 10, the rows start two lines below
RenderTitle(r) == [r EXCEPT !.pc = "rows", !.yPosition = Margin + 10 + LineHeight * 2]

\* lines 231-255: one row
RenderRow(r) ==
  LET row == r.rows[r.rowIndex + 1]
      newPage == NeedsNewPage(r.yPosition)
      yPosition == IF newPage THEN Margin + 10 ELSE r.yPosition
      page == IF newPage THEN r.page + 1 ELSE r.page
  IN [r EXCEPT !.rowIndex = @ + 1,
               !.page = page,
               !.yPosition = yPosition + LineHeight,
               !.lines = Append(@, [y |-> yPosition, page |-> page]),
               !.drawn = @ \o [c \in 1..DrawnColumns(row) |->
                                 [row |-> r.rowIndex, col |-> c - 1,
                                  text |-> CellText(CellValue(row[c])),
                                  y |-> yPosition, page |-> page]]]

\* a worksheet of ten columns with a row of no cell, and cells of every kind
WideSheet ==
  << [c \in 1..10 |-> Str(<<"c", Digit(c - 1)>>)],
     <<>>,
     << Num(<<"0">>), Bool(FalseText), Blank, Num(<<"7">>), Bool(TrueText),
        Str(Rep("x", 15)), Str(Rep("y", 16)), Num(<<"4", "2">>) >>,
     [c \in 1..8 |-> Str(<<"d", Digit(c - 1)>>)] >>
\* a worksheet of n rows of one cell
TallSheet(n) == [i \in 1..n |-> <<Str(<<"r">>)>>]

InitRender == rd \in {RenderCall(WideSheet)} \cup {RenderCall(TallSheet(n)) : n \in 0..MaxRows}

\* the document is created and its title drawn
DrawTitle ==
  /\ rd.pc = "called"
  /\ rd' = RenderTitle(rd)
  /\ UNCHANGED <<combineVars, validateVars, batchVars, uiVars, calls, zip>>

\* the next row is drawn
DrawRow ==
  /\ rd.pc = "rows"
  /\ rd.rowIndex < Len(rd.rows)
  /\ rd' = RenderRow(rd)
  /\ UNCHANGED <<combineVars, validateVars, batchVars, uiVars, calls, zip>>

\* lines 258-263: the document is written out
OutputPdf ==
  /\ rd.pc = "rows"
  /\ rd.rowIndex >= Len(rd.rows)
  /\ rd' = [rd EXCEPT !.pc = "done"]
  /\ UNCHANGED <<combineVars, validateVars, batchVars, uiVars, calls, zip>>

NextRender == DrawTitle \/ DrawRow \/ OutputPdf

----------------------------------------------------------------------------
(* processWorksheets: the archive of the documents *)

\* line 262: the characters of /[\/\\:*?"<>|]/
UnsafeChars == {"/", "\\", ":", "*", "?", "\"", "<", ">", "|"}
Pdf == <<".", "p", "d", "f">>

\* line 262: `${worksheet.name.replace(/[\/\\:*?"<>|]/g, '_')}.pdf`
PdfFileName(name) ==
  [i \in 1..Len(name) |-> IF name[i] \in UnsafeChars THEN "_" ELSE name[i]] \o Pdf

\* the names of the worksheets of the workbook the selection is taken from
ZipSheetNames ==
  { <<"S">>, <<"a", "_", "b">>, <<"a", "<", "b">>, <<"a", ">", "b">>, <<"q", "|">> }

\* selectedWorksheets: worksheets of one workbook, each selected once
Selections ==
  { sel \in UNION {[1..n -> ZipSheetNames] : n \in 0..MaxSelected} :
      \A i, j \in 1..Len(sel) : i # j => sel[i] # sel[j] }

\* a call: the selection, the loop variable i, the archive (file name -> the
\* position in the selection of the worksheet whose document the entry holds),
\* the progress values reported
ZipCall(selected) ==
  [selected |-> selected, pc |-> "loop", i |-> 0, files |-> [n \in {} |-> 0],
   progress |-> <<>>]
NoZip == [ZipCall(<<>>) EXCEPT !.pc = "idle"]

\* lines 262-263: zip.file(fileName, pdfBuffer) sets the entry of that name,
\* replacing the one the archive may hold
ZipFile(files, fileName, data) ==
  [n \in DOMAIN files \cup {fileName} |-> IF n = fileName THEN data ELSE files[n]]

\* lines 208-271: the document of the next worksheet is added and reported
ZipNext(call) ==
  [call EXCEPT !.i = @ + 1,
               !.files = ZipFile(@, PdfFileName(call.selected[call.i + 1]), call.i),
               !.progress = Append(@, Progress(call.i + 1, Len(call.selected)))]

InitZip == zip \in {ZipCall(sel) : sel \in Selections}

\* the next selected worksheet is rendered and its document added to the archive
AddDocument ==
  /\ zip.pc = "loop"
  /\ zip.i < Len(zip.selected)
  /\ zip' = ZipNext(zip)
  /\ UNCHANGED <<combineVars, validateVars, batchVars, uiVars, calls, rd>>

\* line 274: the archive is returned
ReturnZip ==
  /\ zip.pc = "loop"
  /\ zip.i >= Len(zip.selected)
  /\ zip' = [zip EXCEPT !.pc = "returned"]
  /\ UNCHANGED <<combineVars, validateVars, batchVars, uiVars, calls, rd>>

NextZip == AddDocument \/ ReturnZip

----------------------------------------------------------------------------
(* Specifications *)

NoFile == [name |-> <<>>, type |-> "", size |-> 0]

\* no combineAllSheets run
CombineIdle ==
  /\ workbookAnalyses = <<>>
  /\ pc = "idle"
  /\ analysisIndex = 0
  /\ sheetIndex = 0
  /\ SheetNames = <<>>
  /\ Sheets = EmptySheets
  /\ totalSheets = 0
  /\ processedSheets = 0
  /\ progressLog = <<>>
  /\ download = NoDownload
  /\ run = 0
  /\ lastSheetNames = <<>>

\* no validateFile call
ValidateIdle == vFile = NoFile /\ vResult = "pending"

\* no batch call, the clock at rest
BatchIdle == vm = NoValidateMany /\ am = NoAnalyzeMany /\ clock = 0

\* FileProcessor not mounted, no pair of invocations, nothing rendered
NoCalls == [k \in {1, 2} |-> NoCombineCall]
ComponentIdle == InitUi /\ calls = NoCalls /\ rd = NoRender /\ zip = NoZip

\* before handleCombineFiles calls combineAllSheets; validateFile is not running
InitCombineRun == InitCombine /\ ValidateIdle /\ BatchIdle /\ ComponentIdle

\* one handleCombineFiles run: combineAllSheets, then generateCombinedExcel
SpecCombine == InitCombineRun /\ [][NextCombine]_vars

\* before a validateFile call; no combine is running
InitValidateCall == InitValidate /\ CombineIdle /\ BatchIdle /\ ComponentIdle

\* one validateFile call
SpecValidate == InitValidateCall /\ [][NextValidate]_vars

\* before a validateMultipleFiles call
InitValidateManyCall ==
  /\ InitValidateMany /\ CombineIdle /\ ValidateIdle /\ am = NoAnalyzeMany /\ clock = 0
  /\ ComponentIdle

\* one validateMultipleFiles call
SpecValidateMany == InitValidateManyCall /\ [][NextValidateMany]_vars

\* before an analyzeMultipleWorkbooks call
InitAnalyzeManyCall ==
  InitAnalyzeMany /\ CombineIdle /\ ValidateIdle /\ vm = NoValidateMany /\ ComponentIdle

\* one analyzeMultipleWorkbooks call
SpecAnalyzeMany == InitAnalyzeManyCall /\ [][NextAnalyzeMany]_vars

\* two combineAllSheets invocations just called
InitPairRun ==
  /\ InitPair
  /\ CombineIdle /\ ValidateIdle /\ BatchIdle /\ InitUi /\ rd = NoRender /\ zip = NoZip

\* the two invocations interleaved at their awaits
SpecPair == InitPairRun /\ [][NextPair]_vars

\* processWorksheets has read the rows of a worksheet
InitRenderCall ==
  /\ InitRender
  /\ CombineIdle /\ ValidateIdle /\ BatchIdle /\ InitUi /\ calls = NoCalls /\ zip = NoZip

\* one worksheet rendered
SpecRender == InitRenderCall /\ [][NextRender]_vars

\* processWorksheets called with a selection
InitZipCall ==
  /\ InitZip
  /\ CombineIdle /\ ValidateIdle /\ BatchIdle /\ InitUi /\ calls = NoCalls /\ rd = NoRender

\* one processWorksheets call
SpecZip == InitZipCall /\ [][NextZip]_vars

\* FileProcessor after mounting
InitFileProcessor ==
  /\ InitUi /\ clock = 0
  /\ CombineIdle /\ ValidateIdle /\ vm = NoValidateMany /\ am = NoAnalyzeMany
  /\ calls = NoCalls /\ rd = NoRender /\ zip = NoZip

\* FileProcessor under the user's events, its handlers running
SpecUi == InitFileProcessor /\ [][NextUi]_vars

----------------------------------------------------------------------------
(* What the claims speak of *)

\* the (analysis, worksheet) pairs in input order, as <<a, s>> with both from 1
RECURSIVE Flatten(_, _)
Flatten(analyses, a) ==
  IF a > Len(analyses) THEN <<>>
  ELSE [s \in 1..Len(analyses[a].worksheets) |-> <<a, s>>] \o Flatten(analyses, a + 1)
Flat == Flatten(workbookAnalyses, 1)

Placed == 1..Len(SheetNames)
AnalysisAt(k) == workbookAnalyses[Flat[k][1]]
WorksheetAt(k) == AnalysisAt(k).worksheets[Flat[k][2]]
NamesBefore(k) == {SheetNames[j] : j \in 1..(k - 1)}

\* the file name without its final extension
BaseNameOf(name) ==
  IF \E i \in 1..Len(name) : name[i] = "."
  THEN LET last == CHOOSE i \in 1..Len(name) :
                     name[i] = "." /\ \A j \in (i + 1)..Len(name) : name[j] # "."
       IN SubSeq(name, 1, last - 1)
  ELSE name
BaseAt(k) == BaseNameOf(AnalysisAt(k).file.name)

\* the first n characters of s (all of s when it is shorter, none when n < 0)
Trunc(s, n) == SubSeq(s, 1, IF n < 0 THEN 0 ELSE IF n > Len(s) THEN Len(s) ELSE n)
StartsWith(s, p) == Len(p) <= Len(s) /\ SubSeq(s, 1, Len(p)) = p
EndsWith(s, e) == Len(e) <= Len(s) /\ SubSeq(s, Len(s) - Len(e) + 1, Len(s)) = e
Contains(s, t) == \E i \in 1..(Len(s) - Len(t) + 1) : SubSeq(s, i, i + Len(t) - 1) = t
CollisionSuffix(n) == <<"_">> \o NumberToString(n)
\* the n-th candidate for the name N: N cut to leave room for the whole suffix
SuffixedCandidate(N, n) == Trunc(N, 31 - Len(CollisionSuffix(n))) \o CollisionSuffix(n)

Returned == pc \in {"returned", "complete"}

----------------------------------------------------------------------------
(* Claims *)

\* C1: after combineAllSheets returns, no two entries of SheetNames are equal and
\* no sheet placed earlier was overwritten: Sheets has as many keys as SheetNames
\* has entries.
C1_UniqueSheetNames ==
  Returned =>
    /\ \A i, j \in Placed : i # j => SheetNames[i] # SheetNames[j]
    /\ Cardinality(DOMAIN Sheets) = Len(SheetNames)

\* C1 witness: a run has returned in which two files of the same name held a
\* sheet of the same name
C1_Witness ==
  /\ Returned
  /\ \E i, j \in Placed :
       /\ Flat[i][1] # Flat[j][1]
       /\ AnalysisAt(i).file.name = AnalysisAt(j).file.name
       /\ WorksheetAt(i).name = WorksheetAt(j).name

\* C2: while worksheets are appended, every name in SheetNames has at most 31
\* characters, for sheet names of 1 to 31 characters.
C2_NamesAtMost31 ==
  \A k \in Placed :
    Len(WorksheetAt(k).name) \in 1..31 => Len(SheetNames[k]) <= 31

\* C3: when <fileBaseName>_<originalSheetName> is longer than 31 characters and
\* the truncated name does not collide, the final name has at most 31
\* characters, ends with _<originalSheetName>, and what precedes that suffix is
\* a leading prefix of fileBaseName.
C3_TruncatedName ==
  \A k \in Placed :
    LET sheet == WorksheetAt(k).name
        final == SheetNames[k]
        tail == <<"_">> \o sheet
    IN (/\ Len(BaseAt(k)) + 1 + Len(sheet) > 31
        /\ NewSheetName(BaseAt(k), sheet) \notin NamesBefore(k))
       => /\ Len(final) <= 31
          /\ EndsWith(final, tail)
          /\ StartsWith(BaseAt(k), SubSeq(final, 1, Len(final) - Len(tail)))

\* C4: collision resolution picks, for the candidate name N, the first string of
\* N, trunc(N, 31-len("_1"))+"_1", trunc(N, 31-len("_2"))+"_2", ... that is not
\* yet a sheet name of the combined workbook; N itself when it does not collide.
C4_FirstFreeCandidate ==
  \A k \in Placed :
    LET N == NewSheetName(BaseAt(k), WorksheetAt(k).name)
        used == NamesBefore(k)
    IN IF N \notin used
       THEN SheetNames[k] = N
       ELSE \E n \in 1..k :
              /\ SheetNames[k] = SuffixedCandidate(N, n)
              /\ SuffixedCandidate(N, n) \notin used
              /\ \A m \in 1..(n - 1) : SuffixedCandidate(N, m) \in used

\* C4 witness: a name was placed after its candidate and at least its first
\* suffixed form collided, and a name was placed whose candidate had to be
\* shortened to make room for the suffix
C4_Witness ==
  /\ \E k \in Placed :
       LET N == NewSheetName(BaseAt(k), WorksheetAt(k).name)
       IN N \in NamesBefore(k) /\ SuffixedCandidate(N, 1) \in NamesBefore(k)
  /\ \E k \in Placed :
       LET N == NewSheetName(BaseAt(k), WorksheetAt(k).name)
       IN N \in NamesBefore(k) /\ Len(N) > 29

\* C5: truncation only ever shortens the file-name portion: in every final sheet
\* name, also one that received a _<n> collision suffix, the original sheet name
\* appears complete.
C5_SheetNameKeptWhole ==
  \A k \in Placed : Contains(SheetNames[k], WorksheetAt(k).name)

\* both analyses hold a sheet of the same name whose <fileBaseName>_S fits
SameSheetInTwoFiles(i, j) ==
  /\ Flat[i][1] # Flat[j][1]
  /\ WorksheetAt(i).name = WorksheetAt(j).name
  /\ Len(BaseAt(i)) + 1 + Len(WorksheetAt(i).name) <= 31
  /\ Len(BaseAt(j)) + 1 + Len(WorksheetAt(j).name) <= 31

\* C6: for two analyses that each hold a sheet named S, with <fileBaseName>_S of
\* at most 31 characters for both, the combined workbook has two distinct
\* entries for them and each entry's name starts with its own file's base name.
C6_StartsWithOwnBase ==
  (Returned /\ Len(workbookAnalyses) = 2) =>
    \A i, j \in Placed :
      SameSheetInTwoFiles(i, j) =>
        /\ SheetNames[i] # SheetNames[j]
        /\ StartsWith(SheetNames[i], BaseAt(i))
        /\ StartsWith(SheetNames[j], BaseAt(j))

\* the entry is <fileBaseName>_S itself when that name was free; otherwise it
\* ends with a collision suffix _n and starts with the first
\* min(len(fileBaseName), 31 - len(_n)) characters of its file's base name
KeepsBase(k) ==
  LET N == BaseAt(k) \o <<"_">> \o WorksheetAt(k).name
  IN IF N \notin NamesBefore(k)
     THEN SheetNames[k] = N
     ELSE \E n \in 1..k :
            /\ EndsWith(SheetNames[k], CollisionSuffix(n))
            /\ StartsWith(SheetNames[k], Trunc(BaseAt(k), 31 - Len(CollisionSuffix(n))))
            /\ (Len(BaseAt(k)) + Len(CollisionSuffix(n)) <= 31
                  => StartsWith(SheetNames[k], BaseAt(k)))

\* C6 as amended: the two entries are distinct; an entry placed without a
\* collision is <fileBaseName>_S, and an entry that received the suffix _n
\* starts with the first min(len(fileBaseName), 31 - len(_n)) characters of its
\* file's base name: the whole base name only while base name and suffix
\* together fit in 31 characters.
C6_StartsWithKeptBase ==
  Returned =>
    \A i, j \in Placed :
      SameSheetInTwoFiles(i, j) =>
        /\ SheetNames[i] # SheetNames[j]
        /\ KeepsBase(i)
        /\ KeepsBase(j)

\* C6 witness: two files of the same name held the same sheet and the later
\* entry received a collision suffix
C6_Witness ==
  /\ Returned
  /\ \E i, j \in Placed :
       /\ SameSheetInTwoFiles(i, j)
       /\ i < j
       /\ BaseAt(i) = BaseAt(j)
       /\ SheetNames[j] # BaseAt(j) \o <<"_">> \o WorksheetAt(j).name

\* C7: after the return the k-th entry of SheetNames belongs to the k-th
\* (analysis, worksheet) pair of the input order, Sheets maps that name to the
\* very sheet object of the originating workbook, and a second run on the same
\* analyses gives the same names.
C7_OrderAndReference ==
  Returned =>
    /\ Len(SheetNames) = Len(Flat)
    /\ \A k \in Placed :
         Sheets[SheetNames[k]] = AnalysisAt(k).workbook.Sheets[WorksheetAt(k).name]
    /\ (run >= 2 => SheetNames = lastSheetNames)

\* C7 witness: the second run over two analyses, one of several worksheets, has
\* returned
C7_Witness ==
  /\ Returned
  /\ run = 2
  /\ Len(workbookAnalyses) = 2
  /\ Len(workbookAnalyses[1].worksheets) >= 2

\* p is the integer nearest to 100 * i / T, the upper one of two
NearestPercent(p, i, T) == 2 * T * p - T <= 200 * i /\ 200 * i < 2 * T * p + T

\* C8: the i-th onProgress call follows the i-th append and carries
\* round(i / T * 100); the values never decrease, lie in 0..100 and end with
\* 100; five worksheets across two files give 20, 40, 60, 80, 100.
C8_ProgressSequence ==
  LET T == Len(Flat)
      n == Len(progressLog)
  IN pc \in {"loop", "appended", "returned", "complete"} =>
       /\ n = IF pc = "appended" THEN Len(SheetNames) - 1 ELSE Len(SheetNames)
       /\ \A i \in 1..n :
            /\ progressLog[i] \in 0..100
            /\ NearestPercent(progressLog[i], i, T)
            /\ (i > 1 => progressLog[i - 1] <= progressLog[i])
       /\ (Returned /\ T > 0) => (n = T /\ progressLog[n] = 100)
       /\ (Returned /\ T = 5 /\ Len(workbookAnalyses) = 2)
            => progressLog = <<20, 40, 60, 80, 100>>

\* C8 witness: a run over five worksheets in two files has returned
C8_Witness ==
  /\ Returned
  /\ Len(workbookAnalyses) = 2
  /\ Len(Flat) = 5
  /\ Len(progressLog) = 5

\* C9: the progress denominator equals the number of onProgress calls, the
\* number of pairs appended, and the sheetCount generateCombinedExcel returns.
C9_CountsAgree ==
  pc = "complete" =>
    /\ totalSheets = Len(progressLog)
    /\ Len(progressLog) = processedSheets
    /\ processedSheets = Len(Flat)
    /\ download.sheetCount = Len(Flat)

\* C9 witness: generateCombinedExcel has returned for a run over two workbooks
\* with more worksheets than workbooks
C9_Witness ==
  /\ pc = "complete"
  /\ Len(workbookAnalyses) = 2
  /\ download.sheetCount > 2

\* the lower-cased extension of a file name: its last dot and what follows
LowerCasedExtension(name) ==
  IF \E i \in 1..Len(name) : name[i] = "."
  THEN LET last == CHOOSE i \in 1..Len(name) :
                     name[i] = "." /\ \A j \in (i + 1)..Len(name) : name[j] # "."
       IN ToLowerCase(SubSeq(name, last, Len(name)))
  ELSE <<>>

Acceptable(file) ==
  /\ \/ file.type \in {XlsxType, XlsType}
     \/ LowerCasedExtension(file.name)
          \in {<<".", "x", "l", "s", "x">>, <<".", "x", "l", "s">>}
  /\ file.size <= 50 * 1024 * 1024
Rejected(file) == ~Acceptable(file)
UpTo(n) == [i \in 1..n |-> i]

\* C11: validateMultipleFiles checks every file, also after a failure; it
\* succeeds exactly when every file passes, and otherwise fails with one error
\* whose count is the number of failing files and whose message lists the
\* failing files by name in input order and no other.
C11_ValidateMany ==
  LET failing == SelectSeq(vm.files, Rejected)
  IN vm.status # "pending" =>
       /\ vm.checked = UpTo(Len(vm.files))
       /\ vm.status = "ok" <=> Len(failing) = 0
       /\ vm.status = "failed" =>
            /\ vm.count = Len(failing)
            /\ Len(vm.lines) = Len(failing)
            /\ \A k \in 1..Len(failing) : vm.lines[k].name = failing[k].name

\* C11 witness: a batch of three failed whose first and last file fail and whose
\* second passes
C11_Witness ==
  /\ vm.status = "failed"
  /\ Len(vm.files) = 3
  /\ Rejected(vm.files[1])
  /\ Acceptable(vm.files[2])
  /\ Rejected(vm.files[3])

FirstUnreadable(files) ==
  CHOOSE j \in 1..Len(files) :
    /\ ~IsWorkbook(files[j])
    /\ \A i \in 1..(j - 1) : IsWorkbook(files[i])

\* C12: analyzeMultipleWorkbooks analyzes in input order, one file at a time;
\* when files[j] is the first to fail the batch fails with an error naming
\* files[j], no later file is analyzed and no list is returned; when none fails
\* the list has one analysis per file in input order.
C12_FailFast ==
  LET n == Len(am.files)
  IN /\ am.analyzed = UpTo(Len(am.analyzed))
     /\ am.status # "pending" =>
          IF \A i \in 1..n : IsWorkbook(am.files[i])
          THEN /\ am.status = "returned"
               /\ am.analyzed = UpTo(n)
               /\ Len(am.returned) = n
               /\ \A i \in 1..n :
                    /\ am.returned[i].file.name = am.files[i].name
                    /\ Len(am.returned[i].worksheets) = Len(am.files[i].content)
          ELSE /\ am.status = "failed"
               /\ am.errorName = am.files[FirstUnreadable(am.files)].name
               /\ am.analyzed = UpTo(FirstUnreadable(am.files))
               /\ am.returned = <<>>

\* C12 witness: a batch of three failed at its second file
C12_Witness ==
  /\ am.status = "failed"
  /\ Len(am.files) = 3
  /\ IsWorkbook(am.files[1])
  /\ ~IsWorkbook(am.files[2])

\* C13: when the batch fails at a later file, the failure names that file and
\* the analyses already produced stay available to the caller through the
\* error.
C13_PartialResultsKept ==
  (am.status = "failed" /\ Len(am.results) > 0) =>
    /\ am.errorName = am.files[FirstUnreadable(am.files)].name
    /\ am.errorContext = am.results

\* C14: the Ids of the analyses FileProcessor holds together are pairwise
\* distinct, within one batch and across the batches of repeated uploads.
C14_DistinctIds ==
  \A i, j \in 1..Len(ui.workbookAnalyses) :
    i # j => ui.workbookAnalyses[i].file.Id # ui.workbookAnalyses[j].file.Id

Settled(v) == v.status # "pending"

\* C15: a handler analyzes its batch only once validateMultipleFiles has checked
\* every file of the batch and returned, never after it threw and never while it
\* runs; it encodes only the workbook combineAllSheets returned, after the
\* progress callback was called for the last worksheet.
C15_StagesInSequence ==
  \A k \in HandlerSlots :
    LET h == handlers[k]
    IN /\ h.pc = "validate" => h.a = NoAnalyzeMany
       /\ h.a # NoAnalyzeMany =>
            /\ h.pc = "analyze"
            /\ h.v.status = "ok"
            /\ h.v.checked = UpTo(Len(h.batch))
            /\ h.a.files = h.batch
       /\ h.v.status = "failed" => h.a = NoAnalyzeMany
       /\ h.pc = "combine" => h.c.pc # "returned"
       /\ h.pc = "encode" =>
            /\ h.c.pc = "returned"
            /\ Len(h.c.progress) = TotalSheets(h.c.analyses)
            /\ h.c.progress[Len(h.c.progress)] = 100
            /\ Len(h.c.SheetNames) = TotalSheets(h.c.analyses)

\* C15 witness: analyzeMultipleWorkbooks has analyzed the first file of a batch
\* of two whose validation is over
C15_Witness ==
  \E k \in HandlerSlots :
    /\ handlers[k].pc = "analyze"
    /\ Len(handlers[k].batch) = 2
    /\ Settled(handlers[k].v)
    /\ Len(handlers[k].a.analyzed) = 1

\* the step ends the invocation in slot k with its outcome published
Succeeds(k) ==
  /\ handlers'[k] = NoHandler
  /\ \/ handlers[k].pc = "analyze" /\ handlers[k].a.fileIndex >= Len(handlers[k].a.files)
     \/ handlers[k].pc = "encode" /\ ui'.stage = "complete"
\* the step ends the invocation in slot k otherwise
Fails(k) == InFlight(handlers[k]) /\ handlers'[k] = NoHandler /\ ~Succeeds(k)
\* the message of the failure the invocation in slot k meets in this step
FailureMessage(k) ==
  IF handlers[k].pc = "validate" THEN ValidationMessage(ValidateManyNext(handlers[k].v))
  ELSE IF handlers[k].pc = "analyze"
       THEN AnalysisMessage(AnalyzeManyNext(handlers[k].a, clock))
       ELSE EncodeMessage
OutputKept ==
  /\ ui'.files = ui.files
  /\ ui'.workbookAnalyses = ui.workbookAnalyses
  /\ ui'.totalWorksheets = ui.totalWorksheets
  /\ ui'.downloadReady = ui.downloadReady

\* C16: no step of a handler invocation other than the one publishing its
\* outcome changes files, workbookAnalyses, totalWorksheets or downloadReady,
\* and the step in which the invocation fails leaves stage at 'idle' and
\* the failure message in error.
C16_NoPartialOutput ==
  [][\A k \in HandlerSlots :
       (handlers'[k] # handlers[k] /\ ~Succeeds(k)) =>
         /\ OutputKept
         /\ Fails(k) => (ui'.stage = "idle" /\ ui'.error = FailureMessage(k))]_vars

\* C16 witness: handleAddMoreFiles failed in the analysis; the files held before
\* are held still
C16_Witness ==
  /\ ui.error.kind = "analysis"
  /\ ui.stage = "idle"
  /\ Len(ui.files) > 0
  /\ \A k \in HandlerSlots : handlers[k] = NoHandler

\* combineAllSheets run to its end with no other invocation about
RECURSIVE SoloRun(_)
SoloRun(call) == IF call.pc = "returned" THEN call ELSE SoloRun(CombineNext(call, {}))

\* C17: whatever the interleaving, each of two combineAllSheets invocations
\* places the names it places when run alone on its analyses, in the same
\* order, and returns exactly that SheetNames sequence; its set of used names
\* holds the names it placed itself and no other.
C17_InvocationsIsolated ==
  \A k \in {1, 2} :
    LET alone == SoloRun(CombineCall(calls[k].analyses)).SheetNames
        mine == calls[k].SheetNames
    IN /\ Len(mine) <= Len(alone)
       /\ mine = SubSeq(alone, 1, Len(mine))
       /\ DOMAIN calls[k].Sheets = {mine[i] : i \in 1..Len(mine)}
       /\ calls[k].pc = "returned" => mine = alone

\* C17 witness: both invocations, given the same analyses, are between two
\* awaits, and each has placed the same first name
C17_Witness ==
  /\ calls[1].analyses = calls[2].analyses
  /\ calls[1].pc = "loop" /\ calls[2].pc = "loop"
  /\ Len(calls[1].SheetNames) = 1
  /\ calls[2].SheetNames = calls[1].SheetNames
  /\ Len(SoloRun(CombineCall(calls[1].analyses)).SheetNames) > 1

\* the <<row, column>> pairs (0-based) of the first n rows, each row cut to its
\* first eight columns, row after row and column after column
RECURSIVE FirstEightOfEach(_, _)
FirstEightOfEach(rows, n) ==
  IF n = 0 THEN <<>>
  ELSE FirstEightOfEach(rows, n - 1)
         \o [c \in 1..(IF Len(rows[n]) < 8 THEN Len(rows[n]) ELSE 8) |-> <<n - 1, c - 1>>]

\* C18: the cells drawn so far are, in drawing order, the cells of columns 0 to
\* min(row length, 8) - 1 of every row processed, row after row in the original
\* order with no row left out; no column of index 8 or more is drawn.
C18_FirstEightColumns ==
  /\ Len(rd.lines) = rd.rowIndex
  /\ [i \in 1..Len(rd.drawn) |-> <<rd.drawn[i].row, rd.drawn[i].col>>]
       = FirstEightOfEach(rd.rows, rd.rowIndex)
  /\ \A i \in 1..Len(rd.drawn) : rd.drawn[i].col < 8
  /\ rd.pc = "done" => rd.rowIndex = Len(rd.rows)

\* C18 witness: a worksheet with a row of ten columns, a row of none and a row of
\* eight is rendered, the cell of column 7 of the first row among the drawn
C18_Witness ==
  /\ rd.pc = "done"
  /\ Len(rd.rows) = 4
  /\ Len(rd.rows[1]) = 10
  /\ Len(rd.rows[2]) = 0
  /\ \E i \in 1..Len(rd.drawn) : rd.drawn[i].row = 0 /\ rd.drawn[i].col = 7

\* C19: the text drawn for a cell is the string coercion of its value, whole when
\* it has at most 15 characters, its first 15 characters and an ellipsis
\* otherwise; the number 0 is drawn as "0", false as "false", and only a blank
\* cell as the empty string.
C19_CellTextCoerced ==
  \A i \in 1..Len(rd.drawn) :
    LET coerced == rd.rows[rd.drawn[i].row + 1][rd.drawn[i].col + 1].text
    IN rd.drawn[i].text = IF Len(coerced) <= 15 THEN coerced
                          ELSE SubSeq(coerced, 1, 15) \o <<".", ".", ".">>

\* the lowest position a row may be drawn at
LowestLine == PageHeight - Margin - LineHeight

\* C20: every row is drawn at a y from margin + 10 to pageHeight - margin -
\* lineHeight; from a row to the next, y grows by lineHeight on the same page
\* when that stays within the bottom margin, and exactly otherwise a new page
\* is started with y back at margin + 10.
C20_RowsWithinPage ==
  /\ \A i \in 1..Len(rd.lines) :
       Margin + 10 <= rd.lines[i].y /\ rd.lines[i].y <= LowestLine
  /\ \A i \in 1..(Len(rd.lines) - 1) :
       IF rd.lines[i].y + LineHeight > LowestLine
       THEN rd.lines[i + 1].page = rd.lines[i].page + 1 /\ rd.lines[i + 1].y = Margin + 10
       ELSE rd.lines[i + 1].page = rd.lines[i].page
              /\ rd.lines[i + 1].y = rd.lines[i].y + LineHeight
  /\ Len(rd.lines) > 0 => rd.lines[1].page = 1

\* C20 witness: a worksheet is rendered whose rows fill two pages and reach the
\* third
C20_Witness ==
  /\ rd.pc = "done"
  /\ Len(rd.lines) > 0
  /\ rd.lines[Len(rd.lines)].page = 3

\* the worksheet name with each of / \ : * ? " < > | replaced by _, then .pdf
SanitizedKey(name) ==
  [i \in 1..Len(name) |->
     IF name[i] \in {"/", "\\", ":", "*", "?", "\"", "<", ">", "|"} THEN "_" ELSE name[i]]
    \o <<".", "p", "d", "f">>

\* C21: the archive processWorksheets returns for worksheets of pairwise
\* distinct names holds as many entries as worksheets were selected, one for
\* each of them under its sanitized name followed by .pdf, none overwritten.
C21_OneEntryPerWorksheet ==
  zip.pc = "returned" =>
    /\ Cardinality(DOMAIN zip.files) = Len(zip.selected)
    /\ \A k \in 1..Len(zip.selected) :
         /\ SanitizedKey(zip.selected[k]) \in DOMAIN zip.files
         /\ zip.files[SanitizedKey(zip.selected[k])] = k - 1

\* largest counter value for which the candidates are compared with each other
MaxCounter == 12

\* the names the collision loop tested before it placed sheet k, the
\* unsuffixed name included
Tried(k) ==
  LET N == NewSheetName(BaseAt(k), WorksheetAt(k).name)
  IN UniqueLoopTests(N, N, 1, [n \in NamesBefore(k) |-> TRUE])

C23_IndexIsProcessedCount ==
  \A h \in HandlerSlots :
    (handlers[h].pc = "combine" /\ Len(handlers[h].c.progress) > 0) =>
      LET analyses == handlers[h].closure.workbookAnalyses
          names == WorksheetNames(analyses, Len(analyses))
          k == Len(handlers[h].c.progress)
          p == handlers[h].c.progress[k]
      IN IF p < 100
         THEN /\ CurrentSheetIndex(p, Len(names)) = k
              /\ ui.currentWorksheet = names[k + 1]
         ELSE k = Len(names)

\* C24: at any time at most one of the asynchronous handlers handleFileSelect,
\* handleAddMoreFiles and handleCombineFiles is in flight, whatever Clear All,
\* Try Again and Remove File do while a handler is running.
C24_OneHandlerInFlight ==
  Cardinality({k \in HandlerSlots : InFlight(handlers[k])}) <= 1

\* the analyses a handler that is about to publish brings from its own upload
Uploaded ==
  UNION { {AnalyzeManyNext(handlers[k].a, clock).returned[i] :
             i \in 1..Len(AnalyzeManyNext(handlers[k].a, clock).returned)} :
          k \in {j \in HandlerSlots : handlers[j].pc = "analyze"} }

\* C25: a file that handleRemoveFile removed or resetState cleared does not
\* come back: whatever files or workbookAnalyses gains in a step was uploaded
\* by the handler publishing in that step, also when the removal happened
\* while that handler was awaiting validation or analysis.
C25_RemovedStaysRemoved ==
  [][ /\ \A i \in 1..Len(ui'.workbookAnalyses) :
           \/ \E j \in 1..Len(ui.workbookAnalyses) :
                ui.workbookAnalyses[j] = ui'.workbookAnalyses[i]
           \/ ui'.workbookAnalyses[i] \in Uploaded
      /\ \A i \in 1..Len(ui'.files) :
           \/ \E j \in 1..Len(ui.files) : ui.files[j] = ui'.files[i]
           \/ \E a \in Uploaded : a.file = ui'.files[i] ]_vars

\* C26: whenever stage is 'complete', downloadReady is set and the artifact it
\* holds counts as many sheets as totalWorksheets says, also after Remove File.
C26_ArtifactMatchesHeld ==
  ui.stage = "complete" =>
    /\ ui.downloadReady # NoDownload
    /\ ui.downloadReady.sheetCount = ui.totalWorksheets

\* C27: in every reachable state of FileProcessor the held state is mutually
\* consistent: files is as long as workbookAnalyses, files[i] is
\* workbookAnalyses[i].file for every i, and totalWorksheets is the sum of the
\* worksheet counts of workbookAnalyses.
C27_HeldStateConsistent ==
  /\ Len(ui.files) = Len(ui.workbookAnalyses)
  /\ \A i \in 1..Len(ui.files) : ui.files[i] = ui.workbookAnalyses[i].file
  /\ ui.totalWorksheets = CountSheets(ui.workbookAnalyses, Len(ui.workbookAnalyses))

\* C27 witness: files were cleared while handleAddMoreFiles was in flight, a
\* later handleFileSelect has published its files, and the handleAddMoreFiles
\* call, whose closure holds other files, is still to publish
C27_Witness ==
  \E k \in HandlerSlots :
    /\ handlers[k].kind = "add"
    /\ InFlight(handlers[k])
    /\ ui.stage = "idle"
    /\ Len(ui.files) > 0
    /\ handlers[k].closure.files # ui.files

====
